---- MODULE Spec2Model ----
(***************************************************************************)
(* TaskAPI: the task domain service (src/internal/tasks.py) over its two   *)
(* storage backends (src/internal/taskdb.py).                              *)
(*                                                                         *)
(* Granularity: one storage call (post, get_by_id, delete) is one step.    *)
(* The service operations create_task and update_task make two storage     *)
(* calls each, so they are two steps each, and the steps of different      *)
(* request contexts interleave at the storage-call boundaries (the HTTP    *)
(* endpoints are plain `def` handlers, run on a thread pool, all sharing   *)
(* the one storage object of dependencies.py).                             *)
(*                                                                         *)
(* Python values: an Optional value is a sequence, <<>> for None and <<v>> *)
(* for a value v; a str is a TLA+ string; a datetime is a record of its    *)
(* seconds, microseconds and optional UTC offset; text produced by         *)
(* isoformat() is a sequence of tagged tokens.                             *)
(***************************************************************************)
EXTENDS Integers, Sequences, FiniteSets, TLC

VARIABLES backend, memdb, sqldb, pc, local, last, nops

vars == <<backend, memdb, sqldb, pc, local, last, nops>>

----------------------------------------------------------------------------
(* Bounds of the model *)

\* number of concurrent request contexts (threads)
NumProcs == 2

\* number of operations started in one behaviour
MaxOps == 3

Procs == 1..NumProcs

----------------------------------------------------------------------------
(* Values *)

ID_MAX == 2147483647

None == <<>>

Some(v) == <<v>>

\* class PrioEnum(IntEnum): high = 1, medium = 2, low = 3
PrioEnum == {1, 2, 3}

\* the ids the model draws from: both ends of random.randint's range
TaskIDs == {0, ID_MAX}

\* the integers a random draw is sampled from: the task ids of the model and
\* the integer just below 0 (ID_MAX is the largest integer TLC represents)
IntSamples == TaskIDs \cup {0 - 1}

\* mutant: a lower bound that is off by one
randint_OffByOne(a, b) == {n \in IntSamples : a - 1 <= n /\ n <= b}

\* random.randint(a, b): any integer n with a <= n <= b
randint(a, b) == {n \in IntSamples : a <= n /\ n <= b}

\* datetime samples: naive without microseconds, aware (UTC) with microseconds
Date1 == [sec |-> 1, us |-> 0, tz |-> None]

Date2 == [sec |-> 2, us |-> 5, tz |-> Some(0)]

DueDates == {Date1, Date2}

\* Task(id, title, description, priority, due_date, completed)
Task(id, title, description, priority, due_date, completed) ==
    [id |-> id, title |-> title, description |-> description,
     priority |-> priority, due_date |-> due_date, completed |-> completed]

\* CreateTaskReq(title, description, priority, due_date)
CreateTaskReq(title, description, priority, due_date) ==
    [title |-> title, description |-> description,
     priority |-> priority, due_date |-> due_date]

\* UpdateTaskReq(id, title, description, priority, due_date, completed)
UpdateTaskReq(id, title, description, priority, due_date, completed) ==
    [id |-> id, title |-> title, description |-> description,
     priority |-> priority, due_date |-> due_date, completed |-> completed]

\* the result of a call: the value returned or the error raised
\* (val for a task, list for a list of tasks)
Ok(v) == [err |-> "", val |-> Some(v), list |-> <<>>]

OkList(l) == [err |-> "", val |-> None, list |-> l]

Returns == [err |-> "", val |-> None, list |-> <<>>]

Raise(e) == [err |-> e, val |-> None, list |-> <<>>]

\* the arguments of a get_all or get_all_tasks call after db: the names of
\* the arguments passed, and their values (None for one not passed)
Args(passed, completed, priority, search) ==
    [passed |-> passed, completed |-> completed, priority |-> priority,
     search |-> search]

NoArgs == Args({}, None, None, None)

\* calling a function whose parameters are params with the arguments args:
\* an argument that matches no parameter is a TypeError
BindErr(params, args) ==
    IF args.passed \subseteq params THEN "" ELSE "TypeError"

----------------------------------------------------------------------------
(* InMemoryTaskDB: self._db is a dict, modelled as the sequence of its     *)
(* entries [key, value] in insertion order.                                *)

InMemory_init == <<>>

KeyIndex(db, k) == {i \in 1..Len(db) : db[i].key = k}

\* mutant: the entry is stored under its position, not under task.id
InMemory_post_KeyLen(db, task) ==
    Append(db, [key |-> Len(db), value |-> task])

\* mutant: the entry is appended even when the key is already there
InMemory_post_Append(db, task) ==
    Append(db, [key |-> task.id, value |-> task])

\* self._db[task.id] = task
InMemory_post(db, task) ==
    IF KeyIndex(db, task.id) # {}
    THEN [i \in 1..Len(db) |->
            IF db[i].key = task.id THEN [key |-> task.id, value |-> task] ELSE db[i]]
    ELSE Append(db, [key |-> task.id, value |-> task])

\* mutant: the first entry is returned, whatever its key
InMemory_get_by_id_First(db, task_id) ==
    IF KeyIndex(db, task_id) = {}
    THEN Raise("NotFoundError")
    ELSE Ok(db[1].value)

InMemory_get_by_id(db, task_id) ==
    IF KeyIndex(db, task_id) = {}
    THEN Raise("NotFoundError")
    ELSE Ok(db[CHOOSE i \in KeyIndex(db, task_id) : TRUE].value)

\* def get_all(self, completed=None, priority=None)
get_all_params == {"completed", "priority"}

\* mutant: `if completed:` for `if completed is not None:`
InMemory_get_all_Truthy(db, completed, priority) ==
    LET tasks == [i \in 1..Len(db) |-> db[i].value]
        by_completed ==
            IF completed # None /\ completed[1]
            THEN SelectSeq(tasks, LAMBDA t : t.completed = completed[1])
            ELSE tasks
    IN  IF priority # None
        THEN SelectSeq(by_completed, LAMBDA t : t.priority = priority[1])
        ELSE by_completed

InMemory_get_all(db, completed, priority) ==
    LET tasks == [i \in 1..Len(db) |-> db[i].value]
        by_completed ==
            IF completed # None
            THEN SelectSeq(tasks, LAMBDA t : t.completed = completed[1])
            ELSE tasks
    IN  IF priority # None
        THEN SelectSeq(by_completed, LAMBDA t : t.priority = priority[1])
        ELSE by_completed

\* mutant: the KeyError of a missing key is not caught
InMemory_delete_KeyError(db, task_id) ==
    IF KeyIndex(db, task_id) = {}
    THEN [db |-> db, err |-> "KeyError"]
    ELSE [db |-> SelectSeq(db, LAMBDA e : e.key # task_id), err |-> ""]

\* try: del self._db[task_id]; except KeyError: return. The result is the
\* new dict and the error raised, "" for none.
InMemory_delete(db, task_id) ==
    IF KeyIndex(db, task_id) = {}
    THEN [db |-> db, err |-> ""]
    ELSE [db |-> SelectSeq(db, LAMBDA e : e.key # task_id), err |-> ""]

----------------------------------------------------------------------------
(* SQLiteTaskDB: the table is a set of rows                                *)
(* <<id, title, description, priority, due_date, completed>>.              *)

\* mutant: the UTC offset is left out of the text
isoformat_NoOffset(d) ==
    <<[k |-> "T", v |-> d.sec]>>
    \o (IF d.us # 0 THEN <<[k |-> ".", v |-> d.us]>> ELSE <<>>)

\* datetime.isoformat(): seconds, then ".ffffff" only when the microsecond
\* is not 0, then "+HH:MM" only when the datetime is aware
isoformat(d) ==
    <<[k |-> "T", v |-> d.sec]>>
    \o (IF d.us # 0 THEN <<[k |-> ".", v |-> d.us]>> ELSE <<>>)
    \o (IF d.tz # None THEN <<[k |-> "+", v |-> d.tz[1]]>> ELSE <<>>)

Field(text, k) == {i \in 1..Len(text) : text[i].k = k}

\* mutant: the fraction is not parsed
fromisoformat_NoMicro(text) ==
    [sec |-> text[1].v,
     us  |-> 0,
     tz  |-> IF Field(text, "+") = {} THEN None
             ELSE Some(text[CHOOSE i \in Field(text, "+") : TRUE].v)]

\* datetime.fromisoformat(): a missing fraction is microsecond 0, a missing
\* offset is a naive datetime
fromisoformat(text) ==
    [sec |-> text[1].v,
     us  |-> IF Field(text, ".") = {} THEN 0
             ELSE text[CHOOSE i \in Field(text, ".") : TRUE].v,
     tz  |-> IF Field(text, "+") = {} THEN None
             ELSE Some(text[CHOOSE i \in Field(text, "+") : TRUE].v)]

\* int(bool)
int(b) == IF b THEN 1 ELSE 0

\* bool(int)
bool(n) == n # 0

convert_task_to_sqlite(task) ==
    [id |-> task.id,
     title |-> task.title,
     description |-> task.description,
     priority |-> task.priority,
     due_date |-> isoformat(task.due_date),
     completed |-> int(task.completed)]

\* mutant: `row[2] or ""`, a NULL description read as empty text
convert_sqlite_to_task_EmptyDescription(row) ==
    Task(row[1], row[2], IF row[3] = None THEN Some("") ELSE row[3], row[4],
         fromisoformat(row[5]), bool(row[6]))

convert_sqlite_to_task(row) ==
    Task(row[1], row[2], row[3], row[4], fromisoformat(row[5]), bool(row[6]))

SQLite_init == {}

\* the CHECK constraints of CREATE TABLE
SQLite_check(row) == row[4] \in {1, 2, 3} /\ row[6] \in {0, 1}

\* INSERT OR REPLACE INTO t(id,...) VALUES (...): id is the PRIMARY KEY, so
\* the row with the same id, if any, is deleted first. The result is the new
\* table and the error raised, "" for none.
SQLite_post(tbl, task) ==
    LET data == convert_task_to_sqlite(task)
        row  == <<data.id, data.title, data.description, data.priority,
                  data.due_date, data.completed>>
    IN  IF SQLite_check(row)
        THEN [tbl |-> {r \in tbl : r[1] # row[1]} \cup {row}, err |-> ""]
        ELSE [tbl |-> tbl, err |-> "IntegrityError"]

\* SELECT * FROM t WHERE id=:id; fetchone()
SQLite_get_by_id(tbl, task_id) ==
    LET rows == {r \in tbl : r[1] = task_id}
    IN  IF rows = {}
        THEN Raise("NotFoundError")
        ELSE Ok(convert_sqlite_to_task(CHOOSE r \in rows : TRUE))

\* mutant: the table is walked in descending id order
RECURSIVE fetchall_Desc(_)
fetchall_Desc(rows) ==
    IF rows = {} THEN <<>>
    ELSE LET r == CHOOSE r \in rows : \A q \in rows : q[1] <= r[1]
         IN  <<r>> \o fetchall_Desc(rows \ {r})

\* mutant: fetchone() for fetchall()
fetchall_One(rows) ==
    IF rows = {} THEN <<>>
    ELSE <<CHOOSE r \in rows : \A q \in rows : r[1] <= q[1]>>

\* the rows of a table scan: SELECT without ORDER BY on a table whose id is
\* the INTEGER PRIMARY KEY walks the table in id order
RECURSIVE fetchall(_)
fetchall(rows) ==
    IF rows = {} THEN <<>>
    ELSE LET r == CHOOSE r \in rows : \A q \in rows : r[1] <= q[1]
         IN  <<r>> \o fetchall(rows \ {r})

\* SELECT * FROM t [WHERE completed = ? [AND priority = ?]]; the bool
\* parameter is bound as the integer 0 or 1, the priority as int(priority)
SQLite_get_all(tbl, completed, priority) ==
    LET rows == fetchall({r \in tbl :
                    /\ completed # None => r[6] = int(completed[1])
                    /\ priority # None => r[4] = priority[1]})
    IN  [i \in 1..Len(rows) |-> convert_sqlite_to_task(rows[i])]

\* mutant: DELETE FROM t, without the WHERE clause
SQLite_delete_All(tbl, task_id) == {}

\* mutant: no row is deleted
SQLite_delete_Noop(tbl, task_id) == tbl

\* DELETE FROM t WHERE id=:id
SQLite_delete(tbl, task_id) == {r \in tbl : r[1] # task_id}

----------------------------------------------------------------------------
(* The storage object the service is given (db: TaskReadWriter)            *)

db_get_by_id(task_id) ==
    IF backend = "inmemory"
    THEN InMemory_get_by_id(memdb, task_id)
    ELSE SQLite_get_by_id(sqldb, task_id)

\* get_all(...) of the backend b with the arguments args
get_all_on(b, args) ==
    IF BindErr(get_all_params, args) # ""
    THEN Raise(BindErr(get_all_params, args))
    ELSE IF b = "inmemory"
         THEN OkList(InMemory_get_all(memdb, args.completed, args.priority))
         ELSE OkList(SQLite_get_all(sqldb, args.completed, args.priority))

\* db.get_all(...) with the arguments args
db_get_all(args) == get_all_on(backend, args)

\* the error db.post(task) raises, "" for none
db_post_err(task) ==
    IF backend = "inmemory" THEN "" ELSE SQLite_post(sqldb, task).err

db_post(task) ==
    IF backend = "inmemory"
    THEN memdb' = InMemory_post(memdb, task) /\ UNCHANGED sqldb
    ELSE sqldb' = SQLite_post(sqldb, task).tbl /\ UNCHANGED memdb

\* the error db.delete(task_id) raises, "" for none
db_delete_err(task_id) ==
    IF backend = "inmemory" THEN InMemory_delete(memdb, task_id).err ELSE ""

db_delete(task_id) ==
    IF backend = "inmemory"
    THEN memdb' = InMemory_delete(memdb, task_id).db /\ UNCHANGED sqldb
    ELSE sqldb' = SQLite_delete(sqldb, task_id) /\ UNCHANGED memdb

\* `except cls:` catches the error e
Catches(cls, e) == e = cls

----------------------------------------------------------------------------
(* Task service, src/internal/tasks.py                                     *)

\* mutant: the description of the request is not passed on
create_task_new_NoDescription(task_id, req) ==
    Task(task_id, req.title, None, req.priority, req.due_date, FALSE)

\* task = Task(id=task_id, ..., completed=False) of create_task
create_task_new(task_id, req) ==
    Task(task_id, req.title, req.description, req.priority, req.due_date, FALSE)

\* mutant: a completed flag the request leaves out falls back to the default
model_copy_Default(task, req) ==
    [id          |-> task.id,
     title       |-> IF req.title = None THEN task.title ELSE req.title[1],
     description |-> IF req.description = None THEN task.description
                     ELSE req.description,
     priority    |-> IF req.priority = None THEN task.priority ELSE req.priority[1],
     due_date    |-> IF req.due_date = None THEN task.due_date ELSE req.due_date[1],
     completed   |-> IF req.completed = None THEN FALSE ELSE req.completed[1]]

\* mutant: the description is taken from the request even when it is None
model_copy_Replace(task, req) ==
    [id          |-> task.id,
     title       |-> IF req.title = None THEN task.title ELSE req.title[1],
     description |-> req.description,
     priority    |-> IF req.priority = None THEN task.priority ELSE req.priority[1],
     due_date    |-> IF req.due_date = None THEN task.due_date ELSE req.due_date[1],
     completed   |-> IF req.completed = None THEN task.completed
                     ELSE req.completed[1]]

\* req.model_dump(exclude_none=True, exclude={"id"}); task.model_copy(update=...)
model_copy(task, req) ==
    [id          |-> task.id,
     title       |-> IF req.title = None THEN task.title ELSE req.title[1],
     description |-> IF req.description = None THEN task.description
                     ELSE req.description,
     priority    |-> IF req.priority = None THEN task.priority ELSE req.priority[1],
     due_date    |-> IF req.due_date = None THEN task.due_date ELSE req.due_date[1],
     completed   |-> IF req.completed = None THEN task.completed
                     ELSE req.completed[1]]

\* mutant: a blank task is returned for a missing id
get_task_by_id_Default(task_id) ==
    IF db_get_by_id(task_id).err = ""
    THEN db_get_by_id(task_id)
    ELSE Ok(Task(task_id, "", None, 2, Date1, FALSE))

get_task_by_id(task_id) == db_get_by_id(task_id)

\* def get_all_tasks(db): no parameter after db
get_all_tasks_params == {}

\* get_all_tasks(db, ...) with the arguments args after db: return db.get_all()
get_all_tasks(args) ==
    IF BindErr(get_all_tasks_params, args) # ""
    THEN Raise(BindErr(get_all_tasks_params, args))
    ELSE db_get_all(NoArgs)

----------------------------------------------------------------------------
(* Inputs *)

PostTasks ==
    {Task(id, "Test Task", Some("A test task"), 2, Date1, FALSE) : id \in TaskIDs}
    \cup {Task(id, "Task 3", None, 3, Date2, TRUE) : id \in TaskIDs}

CreateReqs ==
    {CreateTaskReq("New Task", Some(""), 1, Date2),
     CreateTaskReq("Task without description", None, 3, Date1)}

UpdateReqs ==
    UNION {{UpdateTaskReq(id, Some("Updated Title"), None, None, None, None),
            UpdateTaskReq(id, None, None, None, None, Some(TRUE)),
            UpdateTaskReq(id, None, None, None, None, None),
            UpdateTaskReq(id, Some("Completely Updated Task"),
                          Some("New description"), Some(3), Some(Date1),
                          Some(TRUE))} : id \in TaskIDs}

\* get_all(), get_all(None), get_all(completed=True), get_all(completed=False),
\* get_all(priority=low), get_all(priority=medium, completed=False),
\* get_all(search="task")
GetAllArgs ==
    {NoArgs,
     Args({"completed"}, None, None, None),
     Args({"completed"}, Some(TRUE), None, None),
     Args({"completed"}, Some(FALSE), None, None),
     Args({"priority"}, None, Some(3), None),
     Args({"completed", "priority"}, Some(FALSE), Some(2), None),
     Args({"search"}, None, None, Some("task"))}

\* get_all_tasks(db), get_all_tasks(db, None), get_all_tasks(db, True),
\* get_all_tasks(db, completed, priority, search) as the router calls it
GetAllTasksArgs ==
    {NoArgs,
     Args({"completed"}, None, None, None),
     Args({"completed"}, Some(TRUE), None, None),
     Args({"completed", "priority", "search"}, None, None, None)}

----------------------------------------------------------------------------
(* State *)

NoLocal == [task_id |-> -1, creq |-> None, ureq |-> None, task |-> None,
            args |-> NoArgs, snap |-> <<>>, stores |-> {}]

\* the id has a record in the store (b, m, s)
PresentIn(b, m, s, task_id) ==
    IF b = "inmemory"
    THEN KeyIndex(m, task_id) # {}
    ELSE \E r \in s : r[1] = task_id

Present(task_id) == PresentIn(backend, memdb, sqldb, task_id)

\* what the step just taken was: the operation, its arguments, the value
\* returned (res) or error raised (err), whether the id had a record in
\* the store when the step was taken (had), and for an HTTP request the
\* status code of the response (status, 0 otherwise)
Call(p, op, id, task, creq, ureq, r) ==
    [proc |-> p, op |-> op, id |-> id, task |-> task, creq |-> creq,
     ureq |-> ureq, res |-> r.val, err |-> r.err, had |-> Present(id),
     args |-> NoArgs, list |-> r.list, status |-> 0]

\* the same for a get_all or get_all_tasks call
CallAll(p, op, args, r) ==
    [Call(p, op, -1, None, None, None, r) EXCEPT !.args = args]

Init ==
    /\ backend \in {"inmemory", "sqlite"}
    /\ memdb = InMemory_init
    /\ sqldb = SQLite_init
    /\ pc = [p \in Procs |-> "idle"]
    /\ local = [p \in Procs |-> NoLocal]
    /\ last = Call(0, "init", -1, None, None, None, Returns)
    /\ nops = 0

Start(p) == pc[p] = "idle" /\ nops < MaxOps /\ nops' = nops + 1

----------------------------------------------------------------------------
(* Storage calls made directly *)

Post(p, task) ==
    /\ Start(p)
    /\ db_post(task)
    /\ last' = Call(p, "post", task.id, Some(task), None, None,
                    IF db_post_err(task) = "" THEN Returns
                    ELSE Raise(db_post_err(task)))
    /\ UNCHANGED <<backend, pc, local>>

GetById(p, task_id) ==
    /\ Start(p)
    /\ last' = Call(p, "get_by_id", task_id, None, None, None,
                    db_get_by_id(task_id))
    /\ UNCHANGED <<backend, memdb, sqldb, pc, local>>

Delete(p, task_id) ==
    /\ Start(p)
    /\ db_delete(task_id)
    /\ last' = Call(p, "delete", task_id, None, None, None,
                    IF db_delete_err(task_id) = "" THEN Returns
                    ELSE Raise(db_delete_err(task_id)))
    /\ UNCHANGED <<backend, pc, local>>

GetAll(p, args) ==
    /\ Start(p)
    /\ last' = CallAll(p, "get_all", args, db_get_all(args))
    /\ UNCHANGED <<backend, memdb, sqldb, pc, local>>

----------------------------------------------------------------------------
(* Service operations *)

GetAllTasks(p, args) ==
    /\ Start(p)
    /\ last' = CallAll(p, "get_all_tasks", args, get_all_tasks(args))
    /\ UNCHANGED <<backend, memdb, sqldb, pc, local>>

\* mutant: the id is not probed
CreateTaskLookup_NoCheck(p, req) ==
    /\ Start(p)
    /\ \E task_id \in randint(0, ID_MAX) :
         /\ pc' = [pc EXCEPT ![p] = "create_post"]
         /\ local' = [local EXCEPT ![p] =
               [NoLocal EXCEPT !.task_id = task_id, !.creq = Some(req)]]
         /\ last' = Call(p, "create_task.get_by_id", task_id, None,
                         Some(req), None, db_get_by_id(task_id))
    /\ UNCHANGED <<backend, memdb, sqldb>>

\* create_task up to and including db.get_by_id(task_id)
CreateTaskLookup(p, req) ==
    /\ Start(p)
    /\ \E task_id \in randint(0, ID_MAX) :
         LET r == db_get_by_id(task_id)
             e == IF r.err = "" THEN "AlreadyExistsError" ELSE r.err
         IN  IF Catches("NotFoundError", e)
             THEN /\ pc' = [pc EXCEPT ![p] = "create_post"]
                  /\ local' = [local EXCEPT ![p] =
                        [NoLocal EXCEPT !.task_id = task_id, !.creq = Some(req)]]
                  /\ last' = Call(p, "create_task.get_by_id", task_id, None,
                                  Some(req), None, r)
             ELSE /\ last' = Call(p, "create_task", task_id, None, Some(req),
                                  None, Raise(e))
                  /\ UNCHANGED <<pc, local>>
    /\ UNCHANGED <<backend, memdb, sqldb>>

\* create_task from Task(...) to return
CreateTaskPost(p) ==
    /\ pc[p] = "create_post"
    /\ LET task == create_task_new(local[p].task_id, local[p].creq[1])
       IN  /\ db_post(task)
           /\ last' = Call(p, "create_task", task.id, Some(task), local[p].creq,
                           None,
                           IF db_post_err(task) = "" THEN Ok(task)
                           ELSE Raise(db_post_err(task)))
    /\ pc' = [pc EXCEPT ![p] = "idle"]
    /\ local' = [local EXCEPT ![p] = NoLocal]
    /\ UNCHANGED <<backend, nops>>

GetTaskById(p, task_id) ==
    /\ Start(p)
    /\ last' = Call(p, "get_task_by_id", task_id, None, None, None,
                    get_task_by_id(task_id))
    /\ UNCHANGED <<backend, memdb, sqldb, pc, local>>

\* update_task up to and including get_task_by_id(db, req.id)
UpdateTaskLookup(p, req) ==
    /\ Start(p)
    /\ LET r == get_task_by_id(req.id)
       IN  IF r.err = ""
           THEN /\ pc' = [pc EXCEPT ![p] = "update_post"]
                /\ local' = [local EXCEPT ![p] =
                      [NoLocal EXCEPT !.task_id = req.id, !.ureq = Some(req),
                                      !.task = r.val]]
                /\ last' = Call(p, "update_task.get_task_by_id", req.id, None,
                                None, Some(req), r)
           ELSE /\ last' = Call(p, "update_task", req.id, None, None, Some(req),
                                Raise(r.err))
                /\ UNCHANGED <<pc, local>>
    /\ UNCHANGED <<backend, memdb, sqldb>>

\* update_task from model_dump to return
UpdateTaskPost(p) ==
    /\ pc[p] = "update_post"
    /\ LET updated == model_copy(local[p].task[1], local[p].ureq[1])
       IN  /\ db_post(updated)
           /\ last' = Call(p, "update_task", updated.id, Some(updated), None,
                           local[p].ureq,
                           IF db_post_err(updated) = "" THEN Ok(updated)
                           ELSE Raise(db_post_err(updated)))
    /\ pc' = [pc EXCEPT ![p] = "idle"]
    /\ local' = [local EXCEPT ![p] = NoLocal]
    /\ UNCHANGED <<backend, nops>>

DeleteTask(p, task_id) ==
    /\ Start(p)
    /\ db_delete(task_id)
    /\ last' = Call(p, "delete_task", task_id, None, None, None,
                    IF db_delete_err(task_id) = "" THEN Returns
                    ELSE Raise(db_delete_err(task_id)))
    /\ UNCHANGED <<backend, pc, local>>

----------------------------------------------------------------------------
(* Specifications *)

\* the operations of the service, as the HTTP layer invokes them
NextService ==
    \E p \in Procs :
        \/ \E req \in CreateReqs : CreateTaskLookup(p, req)
        \/ CreateTaskPost(p)
        \/ \E task_id \in TaskIDs : GetTaskById(p, task_id)
        \/ \E req \in UpdateReqs : UpdateTaskLookup(p, req)
        \/ UpdateTaskPost(p)
        \/ \E task_id \in TaskIDs : DeleteTask(p, task_id)
        \/ \E args \in GetAllTasksArgs : GetAllTasks(p, args)

\* the storage calls made directly, as the tests make them
NextStorage ==
    \E p \in Procs :
        \/ \E task \in PostTasks : Post(p, task)
        \/ \E task_id \in TaskIDs : GetById(p, task_id)
        \/ \E task_id \in TaskIDs : Delete(p, task_id)
        \/ \E args \in GetAllArgs : GetAll(p, args)

Next == NextStorage \/ NextService

Spec == Init /\ [][Next]_vars

SpecService == Init /\ [][NextService]_vars

----------------------------------------------------------------------------
(* Both backends side by side: one sequence of storage calls, each call    *)
(* made on an InMemoryTaskDB and on a SQLiteTaskDB that start empty (the   *)
(* task_db fixture runs every test on both). last records the call and     *)
(* what the InMemoryTaskDB gave.                                           *)

InitBoth ==
    /\ backend = "both"
    /\ memdb = InMemory_init
    /\ sqldb = SQLite_init
    /\ pc = [p \in Procs |-> "idle"]
    /\ local = [p \in Procs |-> NoLocal]
    /\ last = Call(0, "init", -1, None, None, None, Returns)
    /\ nops = 0

BothPost(task) ==
    /\ Start(1)
    /\ memdb' = InMemory_post(memdb, task)
    /\ sqldb' = SQLite_post(sqldb, task).tbl
    /\ last' = Call(1, "post", task.id, Some(task), None, None, Returns)
    /\ UNCHANGED <<backend, pc, local>>

BothGetById(task_id) ==
    /\ Start(1)
    /\ last' = Call(1, "get_by_id", task_id, None, None, None,
                    InMemory_get_by_id(memdb, task_id))
    /\ UNCHANGED <<backend, memdb, sqldb, pc, local>>

BothDelete(task_id) ==
    /\ Start(1)
    /\ memdb' = InMemory_delete(memdb, task_id).db
    /\ sqldb' = SQLite_delete(sqldb, task_id)
    /\ last' = Call(1, "delete", task_id, None, None, None,
                    IF InMemory_delete(memdb, task_id).err = "" THEN Returns
                    ELSE Raise(InMemory_delete(memdb, task_id).err))
    /\ UNCHANGED <<backend, pc, local>>

BothGetAll(args) ==
    /\ Start(1)
    /\ last' = CallAll(1, "get_all", args, get_all_on("inmemory", args))
    /\ UNCHANGED <<backend, memdb, sqldb, pc, local>>

NextBoth ==
    \/ \E task \in PostTasks : BothPost(task)
    \/ \E task_id \in TaskIDs : BothGetById(task_id)
    \/ \E task_id \in TaskIDs : BothDelete(task_id)
    \/ \E args \in GetAllArgs : BothGetAll(args)

SpecBoth == InitBoth /\ [][NextBoth]_vars

----------------------------------------------------------------------------
(* InMemoryTaskDB, statement by statement. The class takes no lock, so the *)
(* statements of calls made from different request contexts interleave.    *)
(* post and delete are one dict operation each; get_by_id is the test      *)
(* `task_id not in self._db` and then the subscript `self._db[task_id]`;   *)
(* get_all is the copy `list(self._db.values())` and then the filters on   *)
(* the copy. local[p].stores is a history: the values the dict has had     *)
(* since the read of p began.                                              *)

InitMem ==
    /\ backend = "inmemory"
    /\ memdb = InMemory_init
    /\ sqldb = SQLite_init
    /\ pc = [p \in Procs |-> "idle"]
    /\ local = [p \in Procs |-> NoLocal]
    /\ last = Call(0, "init", -1, None, None, None, Returns)
    /\ nops = 0

Reading(p) == pc[p] \in {"get_subscript", "get_all_filter"}

\* the histories of the reads in progress, after a write that leaves db
Seen(db) ==
    [q \in Procs |->
        IF Reading(q) THEN [local[q] EXCEPT !.stores = @ \cup {db}]
        ELSE local[q]]

\* self._db[task.id] = task
MemPost(p, task) ==
    /\ Start(p)
    /\ memdb' = InMemory_post(memdb, task)
    /\ local' = Seen(memdb')
    /\ last' = Call(p, "post", task.id, Some(task), None, None, Returns)
    /\ UNCHANGED <<backend, sqldb, pc>>

\* del self._db[task_id], a KeyError swallowed
MemDelete(p, task_id) ==
    /\ Start(p)
    /\ memdb' = InMemory_delete(memdb, task_id).db
    /\ local' = Seen(memdb')
    /\ last' = Call(p, "delete", task_id, None, None, None, Returns)
    /\ UNCHANGED <<backend, sqldb, pc>>

\* if task_id not in self._db: raise NotFoundError(...)
MemGetByIdCheck(p, task_id) ==
    /\ Start(p)
    /\ IF KeyIndex(memdb, task_id) = {}
       THEN /\ last' = Call(p, "get_by_id", task_id, None, None, None,
                            Raise("NotFoundError"))
            /\ UNCHANGED <<pc, local>>
       ELSE /\ pc' = [pc EXCEPT ![p] = "get_subscript"]
            /\ local' = [local EXCEPT ![p] =
                  [NoLocal EXCEPT !.task_id = task_id, !.stores = {memdb}]]
            /\ last' = Call(p, "get_by_id.in", task_id, None, None, None,
                            Returns)
    /\ UNCHANGED <<backend, memdb, sqldb>>

\* return self._db[task_id]: a KeyError when the key is gone
MemGetByIdSubscript(p) ==
    /\ pc[p] = "get_subscript"
    /\ last' = Call(p, "get_by_id", local[p].task_id, None, None, None,
                    IF KeyIndex(memdb, local[p].task_id) = {}
                    THEN Raise("KeyError")
                    ELSE InMemory_get_by_id(memdb, local[p].task_id))
    /\ pc' = [pc EXCEPT ![p] = "idle"]
    /\ local' = [local EXCEPT ![p] = NoLocal]
    /\ UNCHANGED <<backend, memdb, sqldb, nops>>

\* tasks = list(self._db.values())
MemGetAllCopy(p, args) ==
    /\ Start(p)
    /\ IF BindErr(get_all_params, args) # ""
       THEN /\ last' = CallAll(p, "get_all", args,
                               Raise(BindErr(get_all_params, args)))
            /\ UNCHANGED <<pc, local>>
       ELSE /\ pc' = [pc EXCEPT ![p] = "get_all_filter"]
            /\ local' = [local EXCEPT ![p] =
                  [NoLocal EXCEPT !.args = args, !.snap = memdb,
                                  !.stores = {memdb}]]
            /\ last' = CallAll(p, "get_all.list", args, Returns)
    /\ UNCHANGED <<backend, memdb, sqldb>>

\* the two filters on the copy, and the return
MemGetAllFilter(p) ==
    /\ pc[p] = "get_all_filter"
    /\ last' = CallAll(p, "get_all", local[p].args,
                       OkList(InMemory_get_all(local[p].snap,
                                               local[p].args.completed,
                                               local[p].args.priority)))
    /\ pc' = [pc EXCEPT ![p] = "idle"]
    /\ local' = [local EXCEPT ![p] = NoLocal]
    /\ UNCHANGED <<backend, memdb, sqldb, nops>>

NextMem ==
    \/ \E p \in Procs, task \in PostTasks : MemPost(p, task)
    \/ \E p \in Procs, task_id \in TaskIDs : MemDelete(p, task_id)
    \/ \E p \in Procs, task_id \in TaskIDs : MemGetByIdCheck(p, task_id)
    \/ \E p \in Procs : MemGetByIdSubscript(p)
    \/ \E p \in Procs, args \in GetAllArgs : MemGetAllCopy(p, args)
    \/ \E p \in Procs : MemGetAllFilter(p)

SpecMem == InitMem /\ [][NextMem]_vars

----------------------------------------------------------------------------
(* The row encoding of SQLiteTaskDB on its own: a task is converted to the *)
(* parameters of the INSERT, they make the row, and the row is converted   *)
(* back, as post and a later get_by_id do.                                 *)

\* the row (id, title, description, priority, due_date, completed)
Row(data) ==
    <<data.id, data.title, data.description, data.priority, data.due_date,
      data.completed>>

\* due dates with and without microseconds, naive and aware
ConvDates == [sec : {1}, us : {0, 5}, tz : {None, Some(0), Some(60)}]

\* the tasks converted: every combination of the field values
ConvTasks ==
    {Task(id, title, description, priority, due_date, completed) :
        id \in TaskIDs, title \in {"Test Task"},
        description \in {None, Some(""), Some("A test task")},
        priority \in PrioEnum, due_date \in ConvDates,
        completed \in BOOLEAN}

InitConvert ==
    /\ backend = "sqlite"
    /\ memdb = InMemory_init
    /\ sqldb = SQLite_init
    /\ pc = [p \in Procs |-> "idle"]
    /\ local = [p \in Procs |-> NoLocal]
    /\ last = Call(0, "init", -1, None, None, None, Returns)
    /\ nops = 0

\* convert_sqlite_to_task(row of convert_task_to_sqlite(task))
Convert(p, task) ==
    /\ Start(p)
    /\ last' = Call(p, "convert", task.id, Some(task), None, None,
                    Ok(convert_sqlite_to_task(Row(convert_task_to_sqlite(task)))))
    /\ UNCHANGED <<backend, memdb, sqldb, pc, local>>

NextConvert == \E p \in Procs, task \in ConvTasks : Convert(p, task)

SpecConvert == InitConvert /\ [][NextConvert]_vars

----------------------------------------------------------------------------
(* The application: app = FastAPI(); app.include_router(router), where     *)
(* router is the one of src.web.routers. A request is matched against the  *)
(* routes of the app; one that matches no route is answered 404 by the     *)
(* framework and reaches no handler.                                       *)

HTTP_200_OK == 200

HTTP_404_NOT_FOUND == 404

\* the routes of src.web.routers.router: @router.get("/health")
routers_routes ==
    {[method |-> "GET", path |-> "/health", endpoint |-> "health"]}

\* app.include_router(router)
app_routes == routers_routes

\* the endpoint the app routes the request to, "" for none
Route(method, path) ==
    IF \E r \in app_routes : r.method = method /\ r.path = path
    THEN (CHOOSE r \in app_routes : r.method = method /\ r.path = path).endpoint
    ELSE ""

\* async def health(): return fastapi.Response(status_code=HTTP_200_OK)
health == HTTP_200_OK

\* the status of the response to a request
Respond(method, path) ==
    IF Route(method, path) = "health" THEN health ELSE HTTP_404_NOT_FOUND

InitHttp ==
    /\ backend \in {"inmemory", "sqlite"}
    /\ memdb = InMemory_init
    /\ sqldb = SQLite_init
    /\ pc = [p \in Procs |-> "idle"]
    /\ local = [p \in Procs |-> NoLocal]
    /\ last = Call(0, "init", -1, None, None, None, Returns)
    /\ nops = 0

\* the record of one request and its response
HttpCall(p, method, path, id, creq, ureq, args) ==
    [Call(p, method \o " " \o path, id, None, creq, ureq, Returns)
        EXCEPT !.args = args, !.status = Respond(method, path)]

HttpGetHealth(p) ==
    /\ Start(p)
    /\ last' = HttpCall(p, "GET", "/health", -1, None, None, NoArgs)
    /\ UNCHANGED <<backend, memdb, sqldb, pc, local>>

HttpPostTasks(p, req) ==
    /\ Start(p)
    /\ last' = HttpCall(p, "POST", "/tasks", -1, Some(req), None, NoArgs)
    /\ UNCHANGED <<backend, memdb, sqldb, pc, local>>

HttpGetTasks(p, args) ==
    /\ Start(p)
    /\ last' = HttpCall(p, "GET", "/tasks", -1, None, None, args)
    /\ UNCHANGED <<backend, memdb, sqldb, pc, local>>

HttpGetTask(p, task_id) ==
    /\ Start(p)
    /\ last' = HttpCall(p, "GET", "/tasks/{task_id}", task_id, None, None,
                        NoArgs)
    /\ UNCHANGED <<backend, memdb, sqldb, pc, local>>

HttpPutTask(p, req) ==
    /\ Start(p)
    /\ last' = HttpCall(p, "PUT", "/tasks/{task_id}", req.id, None, Some(req),
                        NoArgs)
    /\ UNCHANGED <<backend, memdb, sqldb, pc, local>>

HttpDeleteTask(p, task_id) ==
    /\ Start(p)
    /\ last' = HttpCall(p, "DELETE", "/tasks/{task_id}", task_id, None, None,
                        NoArgs)
    /\ UNCHANGED <<backend, memdb, sqldb, pc, local>>

NextHttp ==
    \/ \E p \in Procs : HttpGetHealth(p)
    \/ \E p \in Procs, req \in CreateReqs : HttpPostTasks(p, req)
    \/ \E p \in Procs, args \in GetAllArgs : HttpGetTasks(p, args)
    \/ \E p \in Procs, task_id \in TaskIDs : HttpGetTask(p, task_id)
    \/ \E p \in Procs, req \in UpdateReqs : HttpPutTask(p, req)
    \/ \E p \in Procs, task_id \in TaskIDs : HttpDeleteTask(p, task_id)

SpecHttp == InitHttp /\ [][NextHttp]_vars

----------------------------------------------------------------------------
(* Views of the state used by the properties *)

PresentAfter(task_id) == PresentIn(backend', memdb', sqldb', task_id)

\* the number of records in the store
Count == IF backend = "inmemory" THEN Len(memdb) ELSE Cardinality(sqldb)

\* the task is the record stored under its id in the store (b, m, s)
HoldsIn(b, m, s, task) ==
    IF b = "inmemory"
    THEN \E i \in 1..Len(m) : m[i].key = task.id /\ m[i].value = task
    ELSE LET data == convert_task_to_sqlite(task)
         IN  <<data.id, data.title, data.description, data.priority,
               data.due_date, data.completed>> \in s

Holds(task) == HoldsIn(backend, memdb, sqldb, task)

HoldsAfter(task) == HoldsIn(backend', memdb', sqldb', task)

\* at most one record for each id
OnePerId ==
    IF backend = "inmemory"
    THEN \A i, j \in 1..Len(memdb) : memdb[i].key = memdb[j].key => i = j
    ELSE \A r1, r2 \in sqldb : r1[1] = r2[1] => r1 = r2

StoreUnchanged == UNCHANGED <<memdb, sqldb>>

\* db.get_by_id(task_id) in the state after the step
GetAfter(task_id) ==
    IF backend' = "inmemory"
    THEN InMemory_get_by_id(memdb', task_id)
    ELSE SQLite_get_by_id(sqldb', task_id)

\* the ids that have a record in the store
StoredIds ==
    IF backend = "inmemory"
    THEN {memdb[i].key : i \in 1..Len(memdb)}
    ELSE {r[1] : r \in sqldb}

\* the tasks present in the store, each as get_by_id returns it
StoredTasks == {db_get_by_id(id).val[1] : id \in StoredIds}

Range(seq) == {seq[i] : i \in 1..Len(seq)}

NoDuplicates(seq) == \A i, j \in 1..Len(seq) : seq[i] = seq[j] => i = j

\* the step called db.post(task) for last'.task, and it did not raise
PostStep == last'.task # None /\ last'.err = ""

\* the step was a point lookup of last'.id
LookupOps == {"get_by_id", "get_task_by_id", "update_task.get_task_by_id"}

\* the step was a get_by_id or get_task_by_id call of last'.id
GetOps == {"get_by_id", "get_task_by_id"}

DeleteOps == {"delete", "delete_task"}

\* the step was the first step of create_task / of update_task
CreateLookupStep == nops' # nops /\ last'.creq # None

UpdateLookupStep == nops' # nops /\ last'.ureq # None

----------------------------------------------------------------------------
(* Properties *)

\* C1: round trip. A lookup by id that directly follows a db.post(T) of the
\* same id (made by post, create_task or update_task) returns a task equal
\* to T in every field, on either backend.
C1_RoundTrip ==
    [][ (last.task # None /\ last.err = "" /\ last'.op \in LookupOps
         /\ last'.id = last.id)
        => (last'.err = "" /\ last'.res = last.task) ]_vars

\* C1 witness: on the durable backend a get_by_id returned a directly posted
\* task whose due date has microseconds and a UTC offset and whose
\* description is absent
C1_Witness ==
    /\ backend = "sqlite"
    /\ last.op = "get_by_id"
    /\ last.res # None
    /\ last.res[1] \in PostTasks
    /\ last.res[1].due_date = Date2
    /\ last.res[1].description = None

\* C2: upsert. Every db.post(T), made by post, create_task or update_task,
\* returns without error; it adds one record when T.id was
\* absent and none when it was present; afterwards T is the record stored
\* under T.id; and the store never holds two records for one id.
C2_Upsert ==
    [][ /\ OnePerId'
        /\ last'.task # None => last'.err = ""
        /\ PostStep =>
             /\ Count' = Count + (IF Present(last'.id) THEN 0 ELSE 1)
             /\ HoldsAfter(last'.task[1])
             /\ PresentAfter(last'.id) ]_vars

\* C2 witness: a direct post replaced the record of an id that was present,
\* and the store holds two records
C2_Witness ==
    /\ last.op = "post"
    /\ last.had
    /\ Count = 2
    /\ Holds(last.task[1])

\* C3: a create_task whose generated id is present in the store raises
\* AlreadyExistsError and leaves the store as it was.
C3_CreateExists ==
    [][ (CreateLookupStep /\ Present(last'.id))
        => (last'.op = "create_task" /\ last'.err = "AlreadyExistsError"
            /\ last'.res = None /\ StoreUnchanged
            /\ pc'[last'.proc] = "idle") ]_vars

\* C3 witness: create_task raised AlreadyExistsError for a stored id
C3_Witness ==
    /\ last.op = "create_task"
    /\ last.err = "AlreadyExistsError"
    /\ last.had
    /\ Present(last.id)

\* C4: a create_task that returns a task never posts over a record that was
\* in the store at the moment of its post.
C4_NoReuse == (last.op = "create_task" /\ last.err = "") => ~last.had

\* C5: update_task never makes an absent id present.
C5_UpdatePresentOnly ==
    (last.op = "update_task" /\ ~last.had) => ~Present(last.id)

\* C6: partial-update merge. The task update_task returns has, field by field,
\* the request's value where the request sets one and otherwise the value of
\* the stored task update_task looked up; its id is the request's; it is the
\* record stored afterwards; with only title set it differs from the task
\* looked up in title alone.
C6_PartialUpdate ==
    [][ (last'.op = "update_task" /\ last'.err = "")
        => LET old == local[last'.proc].task[1]
               req == last'.ureq[1]
               new == last'.res[1]
           IN  /\ new.id = req.id /\ new.id = old.id
               /\ new.title = (IF req.title # None THEN req.title[1] ELSE old.title)
               /\ new.description =
                    (IF req.description # None THEN req.description
                     ELSE old.description)
               /\ new.priority =
                    (IF req.priority # None THEN req.priority[1] ELSE old.priority)
               /\ new.due_date =
                    (IF req.due_date # None THEN req.due_date[1] ELSE old.due_date)
               /\ new.completed =
                    (IF req.completed # None THEN req.completed[1]
                     ELSE old.completed)
               /\ HoldsAfter(new)
               /\ (req.title # None /\ req.description = None
                   /\ req.priority = None /\ req.due_date = None
                   /\ req.completed = None)
                  => new = [old EXCEPT !.title = req.title[1]] ]_vars

\* C6 witness: an update_task with only title set returned a task with the new
\* title that kept a description, a completed flag of TRUE and a due date
\* with microseconds, and that task is the stored record
C6_Witness ==
    /\ last.op = "update_task"
    /\ last.err = ""
    /\ last.ureq[1].title = Some("Updated Title")
    /\ last.res[1].title = "Updated Title"
    /\ last.res[1].description # None
    /\ last.res[1].due_date = Date2
    /\ Holds(last.res[1])

\* C7: an update_task of an id that is absent raises NotFoundError, makes no
\* post (the operation is over, nothing is left to run) and leaves the store
\* as it was, with no record for the id.
C7_UpdateNotFound ==
    [][ (UpdateLookupStep /\ ~Present(last'.id))
        => (last'.op = "update_task" /\ last'.err = "NotFoundError"
            /\ last'.res = None /\ last'.task = None
            /\ pc'[last'.proc] = "idle"
            /\ StoreUnchanged /\ ~PresentAfter(last'.id)) ]_vars

\* C7 witness: update_task raised NotFoundError for an absent id while the
\* store holds another record
C7_Witness ==
    /\ last.op = "update_task"
    /\ last.err = "NotFoundError"
    /\ ~last.had
    /\ ~Present(last.id)
    /\ Count = 1

\* C8: get_by_id and get_task_by_id return the record stored under the id
\* when there is one and raise NotFoundError when there is none, on both
\* backends, and leave the store as it was.
C8_GetById ==
    [][ last'.op \in GetOps
        => /\ StoreUnchanged
           /\ IF Present(last'.id)
              THEN /\ last'.err = ""
                   /\ last'.res # None
                   /\ last'.res[1].id = last'.id
                   /\ Holds(last'.res[1])
              ELSE last'.err = "NotFoundError" /\ last'.res = None ]_vars

\* C8 witness: get_task_by_id returned the record of its id from a durable
\* store of two records
C8_Witness ==
    /\ backend = "sqlite"
    /\ last.op = "get_task_by_id"
    /\ last.err = ""
    /\ last.res[1].id = last.id
    /\ Count = 2

\* C9: delete and delete_task never raise; on an absent id they leave the
\* store as it was; a delete that directly follows a delete of the same id
\* changes nothing.
C9_DeleteIdempotent ==
    [][ last'.op \in DeleteOps
        => /\ last'.err = ""
           /\ ~Present(last'.id) => StoreUnchanged
           /\ (last.op \in DeleteOps /\ last.id = last'.id) => StoreUnchanged
        ]_vars

\* C9 witness: a delete of an absent id returned without error while the store
\* holds a record
C9_Witness ==
    /\ last.op \in DeleteOps
    /\ ~last.had
    /\ last.err = ""
    /\ Count = 1

C11_CreateTask ==
    [][ (last'.op = "create_task" /\ last'.err = "")
        => LET req == last'.creq[1]
               new == last'.res[1]
               id  == local[last'.proc].task_id
           IN  /\ new.id = id
               /\ new.completed = FALSE
               /\ new.title = req.title
               /\ new.description = req.description
               /\ new.priority = req.priority
               /\ new.due_date = req.due_date
               /\ GetAfter(id) = Ok(new)
               /\ \A other \in (StoredIds \cup TaskIDs) \ {id} :
                     GetAfter(other) = db_get_by_id(other) ]_vars

\* C11 witness: create_task stored a task with an empty (not absent)
\* description under an id that had no record, next to another record
C11_Witness ==
    /\ last.op = "create_task"
    /\ last.err = ""
    /\ ~last.had
    /\ last.res[1].description = Some("")
    /\ Holds(last.res[1])
    /\ Count = 2

\* the call passes no constraint: get_all() or get_all(None)
Unfiltered(args) ==
    /\ args.passed \subseteq get_all_params
    /\ args.completed = None
    /\ args.priority = None

\* the task satisfies the constraints the call supplies
Satisfies(t, args) ==
    /\ args.completed # None => t.completed = args.completed[1]
    /\ args.priority # None => t.priority = args.priority[1]

\* C12: get_all without a filter returns the tasks present in the store,
\* each of them once and nothing else, after any sequence of post, delete,
\* create_task and update_task; it does not write.
C12_GetAll ==
    [][ (last'.op = "get_all" /\ Unfiltered(last'.args))
        => /\ last'.err = ""
           /\ NoDuplicates(last'.list)
           /\ Range(last'.list) = StoredTasks
           /\ Len(last'.list) = Count
           /\ \A t \in Range(last'.list) : Holds(t)
           /\ StoreUnchanged ]_vars

\* C12 witness: get_all() returned both records of a store of two
C12_Witness ==
    /\ last.op = "get_all"
    /\ last.args = NoArgs
    /\ last.err = ""
    /\ Len(last.list) = 2
    /\ Count = 2

\* C13: get_all(completed, priority) returns, without error, exactly the
\* present tasks that satisfy every constraint supplied, each once; a
\* constraint not supplied excludes nothing; no match gives the empty list.
C13_GetAllFiltered ==
    [][ (last'.op = "get_all" /\ last'.args.passed \subseteq get_all_params)
        => /\ last'.err = ""
           /\ NoDuplicates(last'.list)
           /\ Range(last'.list) =
                {t \in StoredTasks : Satisfies(t, last'.args)} ]_vars

\* C13 witness: get_all(priority=medium, completed=False) returned one of the
\* two records of the store
C13_Witness ==
    /\ last.op = "get_all"
    /\ last.args.completed = Some(FALSE)
    /\ last.args.priority = Some(2)
    /\ last.err = ""
    /\ Len(last.list) = 1
    /\ Count = 2

\* s, compared case-insensitively, is a substring of text (for the strings of
\* the inputs: the search term "task" against the titles and descriptions)
ContainsCI(s, text) ==
    /\ s = "task"
    /\ text \in {"Test Task", "Task 3", "New Task", "Task without description",
                 "Completely Updated Task", "A test task"}

\* C14: get_all(search=s) returns exactly the present tasks whose title or
\* description contains s, compared case-insensitively.
C14_Search ==
    (last.op = "get_all" /\ last.args.search # None)
    => /\ last.err = ""
       /\ Range(last.list) =
            {t \in StoredTasks :
                \/ ContainsCI(last.args.search[1], t.title)
                \/ /\ t.description # None
                   /\ ContainsCI(last.args.search[1], t.description[1])}

\* C15: get_all_tasks(db, filter) gives what db.get_all(filter) gives, the
\* same error or the same list, and does not write.
C15_PassThrough ==
    [][ last'.op = "get_all_tasks"
        => /\ last'.err = db_get_all(last'.args).err
           /\ last'.list = db_get_all(last'.args).list
           /\ StoreUnchanged ]_vars

\* every field of the update request but id is None
AllNone(req) ==
    /\ req.title = None /\ req.description = None /\ req.priority = None
    /\ req.due_date = None /\ req.completed = None

\* C16: an update_task whose request sets no field returns a task equal to
\* the stored task it looked up; that task is the record stored afterwards;
\* and the store is left exactly as it was whenever the record looked up is
\* still the one stored when update_task posts.
C16_UpdateNoop ==
    [][ (last'.op = "update_task" /\ last'.err = "" /\ AllNone(last'.ureq[1]))
        => LET old == local[last'.proc].task[1]
           IN  /\ last'.res = Some(old)
               /\ HoldsAfter(old)
               /\ Holds(old) => StoreUnchanged ]_vars

\* C16 witness: an update_task with no field set returned a completed task
\* without description, which is the stored record
C16_Witness ==
    /\ last.op = "update_task"
    /\ last.err = ""
    /\ AllNone(last.ureq[1])
    /\ last.res[1].completed
    /\ last.res[1].description = None
    /\ last.had
    /\ Holds(last.res[1])

\* C17: after every sequence of post and delete calls made on both backends,
\* every get_by_id gives the same task or the same error on both, and every
\* get_all(filter) gives the same error or the same tasks on both (each once;
\* the order of the list is not compared); so does the call just made.
C17_Equivalent ==
    /\ \A id \in TaskIDs :
          InMemory_get_by_id(memdb, id) = SQLite_get_by_id(sqldb, id)
    /\ \A args \in GetAllArgs :
          LET m  == get_all_on("inmemory", args)
              sq == get_all_on("sqlite", args)
          IN  /\ m.err = sq.err
              /\ Range(m.list) = Range(sq.list)
              /\ Len(m.list) = Len(sq.list)
    /\ last.op = "get_by_id"
          => /\ last.err = SQLite_get_by_id(sqldb, last.id).err
             /\ last.res = SQLite_get_by_id(sqldb, last.id).val
    /\ last.op = "get_all"
          => /\ last.err = get_all_on("sqlite", last.args).err
             /\ Range(last.list) = Range(get_all_on("sqlite", last.args).list)

\* C17 witness: both stores hold two records, one of them without
\* description, and a get_all(completed=True) just returned that one
C17_Witness ==
    /\ backend = "both"
    /\ Len(memdb) = 2
    /\ Cardinality(sqldb) = 2
    /\ last.op = "get_all"
    /\ last.args.completed = Some(TRUE)
    /\ Len(last.list) = 1
    /\ last.list[1].description = None

\* C18 (as stated): every id that create_task assigns satisfies
\* 1 <= id <= 2147483647.
C18_PositiveIds ==
    (last.op = "create_task" /\ last.err = "")
        => (1 <= last.res[1].id /\ last.res[1].id <= ID_MAX)

\* C18 (amended): every id that create_task assigns satisfies
\* 0 <= id <= ID_MAX = 2147483647, and the record is stored under that id.
C18_IdRange ==
    (last.op = "create_task" /\ last.err = "")
        => /\ 0 <= last.res[1].id
           /\ last.res[1].id <= ID_MAX
           /\ last.id = last.res[1].id

\* C18 witness: a create_task has just assigned the id 0
C18_Witness ==
    last.op = "create_task" /\ last.err = "" /\ last.res[1].id = 0

\* C19: in every reachable state each stored record's id field equals the id
\* under which it is stored (the dict key, the primary key, and the id that
\* get_by_id was asked for), and a successful update_task returns a task whose
\* id is the request's id and the store then holds that task under that id.
C19_IdKeysRecord ==
    /\ backend = "inmemory"
          => \A i \in 1..Len(memdb) : memdb[i].key = memdb[i].value.id
    /\ \A id \in StoredIds : /\ db_get_by_id(id).err = ""
                             /\ db_get_by_id(id).val[1].id = id
    /\ (last.op = "update_task" /\ last.err = "")
          => /\ last.res[1].id = last.ureq[1].id
             /\ last.id = last.ureq[1].id
             /\ Holds(last.res[1])
             /\ db_get_by_id(last.ureq[1].id).val = last.res

\* C19 witness: an update_task that set every other field has just returned,
\* and the store holds a second record under another id
C19_Witness ==
    /\ last.op = "update_task"
    /\ last.err = ""
    /\ last.ureq[1].title = Some("Completely Updated Task")
    /\ last.res[1].id = ID_MAX
    /\ StoredIds = {0, ID_MAX}

\* the tasks with the id task_id in a list of tasks
WithId(tasks, task_id) == SelectSeq(tasks, LAMBDA t : t.id = task_id)

\* C20: on the volatile backend, a get_by_id or get_all that runs while other
\* contexts post and delete returns, for each id, what the same read gives on
\* the store as it was before or as it was after one of those writes: the
\* complete record of that store, or its absence (NotFoundError for
\* get_by_id, no entry for get_all).
C20_NoPartialWrite ==
    [][ LET q == last'.proc
        IN  /\ (q \in Procs /\ pc[q] = "get_subscript")
                  => \E st \in local[q].stores \cup {memdb} :
                        /\ last'.err = InMemory_get_by_id(st, last'.id).err
                        /\ last'.res = InMemory_get_by_id(st, last'.id).val
            /\ (q \in Procs /\ pc[q] = "get_all_filter")
                  => \A id \in TaskIDs :
                        \E st \in local[q].stores \cup {memdb} :
                           WithId(last'.list, id) =
                             WithId(InMemory_get_all(st, last'.args.completed,
                                                     last'.args.priority), id)
      ]_vars

\* get_all() of the backend b before and after the step
ListBefore(b) == get_all_on(b, NoArgs).list

ListAfter(b) == get_all_on(b, NoArgs).list'

\* a step that posts a task with a fresh id into a store that only posts of
\* tasks with distinct ids have filled so far (one record for each call made)
FreshPostStep == last'.op = "post" /\ ~last'.had /\ Len(memdb) = nops

Ascending(tasks) ==
    \A i, j \in 1..Len(tasks) : i < j => tasks[i].id < tasks[j].id

\* C21 (as stated): after posting tasks with distinct ids into an empty
\* store, get_all with no filter returns them in the order posted, on either
\* backend: each such post puts its task at the end of the list.
C21_PostedOrder ==
    [][ FreshPostStep
        => \A b \in {"inmemory", "sqlite"} :
              ListAfter(b) = Append(ListBefore(b), last'.task[1]) ]_vars

\* C21 (amended): after posting tasks with distinct ids into an empty store,
\* get_all with no filter returns them in the order posted on the volatile
\* backend, and in ascending order of id on the durable backend: the posted
\* order when the ids were posted in ascending order, and not otherwise.
C21_Order ==
    [][ FreshPostStep
        => /\ ListAfter("inmemory") = Append(ListBefore("inmemory"), last'.task[1])
           /\ Ascending(ListAfter("sqlite"))
           /\ Range(ListAfter("sqlite"))
                 = Range(ListBefore("sqlite")) \cup {last'.task[1]}
           /\ Len(ListAfter("sqlite")) = Len(ListBefore("sqlite")) + 1
           /\ (ListAfter("sqlite") = Append(ListBefore("sqlite"), last'.task[1]))
                 <=> (\A t \in Range(ListBefore("sqlite")) : t.id < last'.id)
      ]_vars

\* C21 witness: two tasks were posted into the empty stores, the larger id
\* first; the volatile backend lists them as posted, the durable one by id
C21_Witness ==
    /\ backend = "both"
    /\ last.op = "post"
    /\ nops = 2
    /\ Len(memdb) = 2
    /\ memdb[1].key = ID_MAX
    /\ ListBefore("inmemory")[2] = last.task[1]
    /\ ListBefore("sqlite")[1] = last.task[1]

\* C22: the application answers 404 to a GET or PUT on /tasks/{id} for an id
\* absent from the store, 200 to a DELETE on /tasks/{id} whether or not the
\* id is present, and to a POST /tasks either 409 (the generated id collided)
\* or 200 with the created task, which the store then holds.
C22_HttpTranslation ==
    /\ (last.op \in {"GET /tasks/{task_id}", "PUT /tasks/{task_id}"} /\ ~last.had)
          => last.status = 404
    /\ last.op = "DELETE /tasks/{task_id}" => last.status = 200
    /\ last.op = "POST /tasks"
          => \/ last.status = 409
             \/ /\ last.status = 200
                /\ last.res # None
                /\ last.res[1].title = last.creq[1].title
                /\ last.res[1].description = last.creq[1].description
                /\ last.res[1].priority = last.creq[1].priority
                /\ last.res[1].due_date = last.creq[1].due_date
                /\ Holds(last.res[1])

\* the fields an update request sets
SetFields(req) ==
    {f \in {"title", "description", "priority", "due_date", "completed"} :
        req[f] # None}

\* C23: concurrent updates are not lost. When an update_task (request r2)
\* posts, and since its lookup of the task T0 another update_task on the same
\* id (request r1, setting fields disjoint from those of r2) has changed the
\* stored task to T1 = T0 with r1 applied, the stored task after the post
\* carries both changes: it is T1 with r2 applied.
C23_NoLostUpdate ==
    [][ \A r1 \in UpdateReqs :
          LET q  == last'.proc
              r2 == local[q].ureq[1]
              T0 == local[q].task[1]
              T1 == model_copy(T0, r1)
          IN  ( /\ last'.op = "update_task"
                /\ last'.err = ""
                /\ pc[q] = "update_post"
                /\ r1.id = r2.id
                /\ SetFields(r1) # {}
                /\ SetFields(r2) # {}
                /\ SetFields(r1) \cap SetFields(r2) = {}
                /\ T1 # T0
                /\ Holds(T1) )
              => HoldsAfter(model_copy(T1, r2)) ]_vars

\* the operations that write to the store
WriteOps == {"post", "delete", "delete_task", "create_task", "update_task"}

\* C24: write frame. A step of post(T), delete(id), create_task or
\* update_task (and any other step) leaves every record whose id is not the
\* id the operation is about as it was: present or absent as before, and
\* equal in every field; only a write operation changes the store at all.
C24_WriteFrame ==
    [][ /\ \A id \in TaskIDs \ {last'.id} :
              /\ PresentAfter(id) <=> Present(id)
              /\ GetAfter(id) = db_get_by_id(id)
        /\ last'.op \notin WriteOps => StoreUnchanged ]_vars

\* C24 witness: a write has just changed the record of id 0 on the durable
\* backend (a post over a present record, an update, or a delete), while a
\* record with the other id is stored
C24_Witness ==
    /\ backend = "sqlite"
    /\ last.op \in WriteOps
    /\ last.err = ""
    /\ last.had
    /\ last.id = 0
    /\ Present(ID_MAX)

\* C25: the row encoding is a round trip. For every task T,
\* convert_sqlite_to_task of the row built from convert_task_to_sqlite(T)
\* equals T; an absent description is NULL in the row and absent in the
\* result, never empty text; completed false/true is 0/1 in the row and
\* false/true again in the result; and the row meets the CHECK constraints.
C25_RowRoundTrip ==
    last.op = "convert"
        => LET T   == last.task[1]
               row == Row(convert_task_to_sqlite(T))
           IN  /\ last.res = Some(T)
               /\ convert_sqlite_to_task(row) = T
               /\ T.description = None
                     => (row[3] = None /\ last.res[1].description = None)
               /\ T.description # None => row[3] = T.description
               /\ row[6] = (IF T.completed THEN 1 ELSE 0)
               /\ last.res[1].completed = T.completed
               /\ SQLite_check(row)

\* C25 witness: a completed task without description, due at a time with
\* microseconds and a UTC offset, has just gone through the round trip
C25_Witness ==
    /\ last.op = "convert"
    /\ last.task[1].description = None
    /\ last.task[1].completed
    /\ last.task[1].due_date.us # 0
    /\ last.task[1].due_date.tz = Some(60)
    /\ last.res = last.task

\* an update_task of the context q posts in this step, without error
UpdatePostStep(q) ==
    last'.proc = q /\ pc[q] = "update_post" /\ last'.op = "update_task"
    /\ last'.err = ""

\* the task an update_task posts has no description only if the task it
\* looked up had none
KeepsLookedUp ==
    \A q \in Procs :
        (UpdatePostStep(q) /\ last'.res[1].description = None)
            => local[q].task[1].description = None

\* C26: update_task never clears a description. The task an update_task
\* stores has no description only if the task had none before the call; and
\* once the stored task has a description (the one the call looked up, T0, or
\* T0 as another update_task has changed it since), the update_task does not
\* make it absent again.
C26_NeverCleared ==
    [][ /\ KeepsLookedUp
        /\ \A q \in Procs, r1 \in UpdateReqs :
              LET T0 == local[q].task[1]
                  T1 == model_copy(T0, r1)
              IN  ( /\ UpdatePostStep(q)
                    /\ r1.id = T0.id
                    /\ Holds(T1)
                    /\ T1.description # None )
                  => /\ GetAfter(T0.id).err = ""
                     /\ GetAfter(T0.id).val[1].description # None ]_vars

\* the first part of C26 on its own
C26_KeepsLookedUp == [][KeepsLookedUp]_vars

====
